---- MODULE Spec2Model ----
(***************************************************************************)
(* The GRO dispatcher of pkg/tcpip/stack (gro.go): buckets of staged       *)
(* packets, the dispatch path, the timer worker, setInterval and close.    *)
(* Every handler that runs under gd.mu is one atomic action; LockSpec      *)
(* splits the handlers at gd.mu.Lock() to check that this is justified.    *)
(***************************************************************************)
EXTENDS Integers, Sequences, FiniteSets, TLC

\* ------------------------------------------------------------ constants
groNBuckets == 8
groNBucketsMask == groNBuckets - 1
groBucketSize == 8
groMaxPacketSize == 65536
IPv4MinimumSize == 20
TCPMinimumSize == 20
IPv4ProtocolNumber == 2048
TCPProtocolNumber == 6

\* ------------------------------------------------------------ bounds
\* Number of packets the link may hand to dispatch after the initial burst.
MaxPkts == 3
\* Last instant of the monotonic clock.
MaxTime == 2
\* The positive GRO interval, in clock ticks.
Interval == 1
\* The link MTU passed to dispatch.
Mtu == 32000
\* Number of setInterval calls.
MaxSets == 1
\* Number of setInterval calls in the scenarios.
MaxCtlSets == 2
\* Number of packets dispatched after the opening of a scenario.
FreePkts == 1

\* ------------------------------------------------------------ helpers
NilSlot == 0 - 1
NilEp == 0
Slots == 0 .. (groBucketSize - 1)
BucketIdx == 0 .. (groNBuckets - 1)

Uint16(x) == x % 65536

\* A uint32 is kept as <<high half, low half>> of 16 bits each.
Add32(a, n) ==
    LET lo == a[2] + n
    IN  << (a[1] + (lo \div 65536)) % 65536, lo % 65536 >>

RECURSIVE SumSeq(_)
SumSeq(s) == IF s = << >> THEN 0 ELSE Head(s) + SumSeq(Tail(s))

\* The zero value groPacket{}.
NilPkt == [id |-> 0, segs |-> << >>, size |-> 0, rxValidated |-> FALSE]
NilIP == [totalLength |-> 0, headerLength |-> 0, df |-> FALSE, mf |-> FALSE,
          fragmentOffset |-> 0, protocol |-> 0, ttl |-> 0, tos |-> 0,
          src |-> << >>, dst |-> << >>, csumOK |-> FALSE]
NilTCP == [srcPort |-> 0, dstPort |-> 0, seq |-> <<0, 0>>, ack |-> <<0, 0>>,
           flags |-> {}, dataOffset |-> 0, opts |-> << >>, csumOK |-> FALSE]
groPacket == [next |-> NilSlot, prev |-> NilSlot, pkt |-> NilPkt,
              ipHdr |-> NilIP, tcpHdr |-> NilTCP, created |-> 0,
              ep |-> NilEp, idx |-> 0]

\* groDispatcher.init: allocIdxs[j] = j and packetsPrealloc[j].idx = j.
groBucket ==
    [count |-> 0, head |-> NilSlot, tail |-> NilSlot,
     packetsPrealloc |-> [j \in Slots |-> [groPacket EXCEPT !.idx = j]],
     allocIdxs |-> [j \in Slots |-> j]]

\* ------------------------------------------------------------ groPacketList
Front(gb) == gb.head

PushBack(gb, e) ==
    LET s1 == [gb.packetsPrealloc EXCEPT ![e].next = NilSlot, ![e].prev = gb.tail]
        s2 == IF gb.tail # NilSlot THEN [s1 EXCEPT ![gb.tail].next = e] ELSE s1
    IN  [gb EXCEPT !.packetsPrealloc = s2,
                   !.head = IF gb.tail # NilSlot THEN gb.head ELSE e,
                   !.tail = e]

Remove(gb, e) ==
    LET prev == gb.packetsPrealloc[e].prev
        next == gb.packetsPrealloc[e].next
        s1 == IF prev # NilSlot
              THEN [gb.packetsPrealloc EXCEPT ![prev].next = next]
              ELSE gb.packetsPrealloc
        s2 == IF next # NilSlot THEN [s1 EXCEPT ![next].prev = prev] ELSE s1
        s3 == [s2 EXCEPT ![e].next = NilSlot, ![e].prev = NilSlot]
    IN  [gb EXCEPT !.packetsPrealloc = s3,
                   !.head = IF prev = NilSlot /\ gb.head = e THEN next ELSE gb.head,
                   !.tail = IF next = NilSlot /\ gb.tail = e THEN prev ELSE gb.tail]

\* ------------------------------------------------------------ groBucket
full(gb) == gb.count = groBucketSize

\* The composite literal sets pkt, created, ep, ipHdr and tcpHdr; the list
\* entry and idx get their zero values.
insert(gb, pkt, ipHdr, tcpHdr, ep, t) ==
    LET i == gb.allocIdxs[gb.count]
        g == [groPacket EXCEPT !.pkt = pkt, !.created = t, !.ep = ep,
                               !.ipHdr = ipHdr, !.tcpHdr = tcpHdr]
        gb1 == [gb EXCEPT !.packetsPrealloc[i] = g, !.count = gb.count + 1]
    IN  PushBack(gb1, i)

\* The packet as the endpoint sees it: the headers are views of its bytes.
Deliverable(g) == [pkt |-> g.pkt, ipHdr |-> g.ipHdr, tcpHdr |-> g.tcpHdr]

removeOne(gb, e) ==
    LET gb1 == Remove(gb, e)
        c == gb1.count - 1
    IN  [gb1 EXCEPT !.count = c,
                    !.allocIdxs[c] = gb1.packetsPrealloc[e].idx,
                    !.packetsPrealloc[e] = groPacket]

\* Faulty variant: the entry taken from a full bucket is the one at the back.
removeNewest(gb) ==
    LET e == gb.tail
    IN  IF e = NilSlot
        THEN [gb |-> gb, ret |-> Deliverable(groPacket), fault |-> "panic"]
        ELSE LET gb1 == Remove(gb, e)
                 c == gb1.count - 1
             IN  [gb |-> [gb1 EXCEPT !.count = c,
                                     !.allocIdxs[c] = gb1.packetsPrealloc[e].idx,
                                     !.packetsPrealloc[e] = groPacket],
                  ret |-> Deliverable(gb.packetsPrealloc[e]),
                  fault |-> "none"]

\* Returns the bucket and the removed packet; Front() of an empty list is nil
\* and Remove(nil) dereferences it.
removeOldest(gb) ==
    LET e == Front(gb)
    IN  IF e = NilSlot
        THEN [gb |-> gb, ret |-> Deliverable(groPacket), fault |-> "panic"]
        ELSE LET gb1 == Remove(gb, e)
                 c == gb1.count - 1
             IN  [gb |-> [gb1 EXCEPT !.count = c,
                                     !.allocIdxs[c] = gb1.packetsPrealloc[e].idx,
                                     !.packetsPrealloc[e] = groPacket],
                  ret |-> Deliverable(gb.packetsPrealloc[e]),
                  fault |-> "none"]

\* Faulty variant: the TCP header is taken to have no options.
payloadSizeMinHeader(pk) ==
    Uint16(pk.ipHdr.totalLength - IPv4MinimumSize - TCPMinimumSize)

payloadSize(pk) ==
    Uint16(pk.ipHdr.totalLength - IPv4MinimumSize - pk.tcpHdr.dataOffset)

\* ------------------------------------------------------------ findGROPacket
\* Faulty variant: the limit looks at the incoming segment alone.
exceedsMaxCandidateOnly(ipHdr, dataOff, groPkt) ==
    ipHdr.totalLength - IPv4MinimumSize - dataOff >= groMaxPacketSize

\* There's an upper limit on coalesced packet size.
exceedsMax(ipHdr, dataOff, groPkt) ==
    ipHdr.totalLength - IPv4MinimumSize - dataOff + groPkt.pkt.size >= groMaxPacketSize

\* The walk from cur; n counts the entries visited.  The list does not change
\* during the walk, so visiting more entries than the bucket has slots means
\* the walk is in a cycle and never ends.  A linked zero-value entry has nil
\* headers and reading its addresses panics.
RECURSIVE findFrom(_, _, _, _, _)
findFrom(bucket, cur, n, ipHdr, tcpHdr) ==
    IF cur = NilSlot
    THEN [groPkt |-> NilSlot, flush |-> FALSE, fault |-> "none"]
    ELSE IF n >= groBucketSize
    THEN [groPkt |-> NilSlot, flush |-> FALSE, fault |-> "hang"]
    ELSE LET groPkt == bucket.packetsPrealloc[cur] IN
    IF groPkt.pkt.id = 0
    THEN [groPkt |-> NilSlot, flush |-> FALSE, fault |-> "panic"]
    ELSE IF ipHdr.src # groPkt.ipHdr.src \/ ipHdr.dst # groPkt.ipHdr.dst
    THEN findFrom(bucket, groPkt.next, n + 1, ipHdr, tcpHdr)
    ELSE IF tcpHdr.srcPort # groPkt.tcpHdr.srcPort
            \/ tcpHdr.dstPort # groPkt.tcpHdr.dstPort
    THEN findFrom(bucket, groPkt.next, n + 1, ipHdr, tcpHdr)
    ELSE IF ipHdr.ttl # groPkt.ipHdr.ttl \/ ipHdr.tos # groPkt.ipHdr.tos
    THEN [groPkt |-> cur, flush |-> TRUE, fault |-> "none"]
    ELSE LET flags == tcpHdr.flags
             groPktFlags == groPkt.tcpHdr.flags
             dataOff == tcpHdr.dataOffset
         IN
    IF \/ "CWR" \in flags
       \/ (((flags \ groPktFlags) \cup (groPktFlags \ flags))
              \ {"CWR", "FIN", "PSH"}) # {}
       \/ tcpHdr.ack # groPkt.tcpHdr.ack
       \/ dataOff # groPkt.tcpHdr.dataOffset
       \/ Add32(groPkt.tcpHdr.seq, payloadSize(groPkt)) # tcpHdr.seq
    THEN [groPkt |-> cur, flush |-> TRUE, fault |-> "none"]
    ELSE IF \E i \in 1 .. (dataOff - TCPMinimumSize) :
                tcpHdr.opts[i] # groPkt.tcpHdr.opts[i]
    THEN [groPkt |-> cur, flush |-> TRUE, fault |-> "none"]
    ELSE IF exceedsMax(ipHdr, dataOff, groPkt)
    THEN [groPkt |-> cur, flush |-> TRUE, fault |-> "none"]
    ELSE [groPkt |-> cur, flush |-> FALSE, fault |-> "none"]

\* Faulty variant: the walk gives up at the first entry of another flow.
findGROPacketFrontOnly(bucket, ipHdr, tcpHdr) ==
    IF /\ Front(bucket) # NilSlot
       /\ bucket.packetsPrealloc[Front(bucket)].pkt.id # 0
       /\ \/ ipHdr.src # bucket.packetsPrealloc[Front(bucket)].ipHdr.src
          \/ tcpHdr.srcPort # bucket.packetsPrealloc[Front(bucket)].tcpHdr.srcPort
    THEN [groPkt |-> NilSlot, flush |-> FALSE, fault |-> "none"]
    ELSE findFrom(bucket, Front(bucket), 0, ipHdr, tcpHdr)

findGROPacket(bucket, ipHdr, tcpHdr) ==
    findFrom(bucket, Front(bucket), 0, ipHdr, tcpHdr)

bucketForPacket(ipHdr, tcpHdr) ==
    SumSeq(ipHdr.src) + SumSeq(ipHdr.dst) + tcpHdr.srcPort + tcpHdr.dstPort

\* ------------------------------------------------------------ dispatch
\* ipHdr.IsValid(pkt.Data().Size()).
IsValid(ipHdr, pktSize) ==
    /\ ipHdr.headerLength >= IPv4MinimumSize
    /\ ipHdr.headerLength <= ipHdr.totalLength
    /\ ipHdr.totalLength <= pktSize

\* One HandlePacket call.
Handle(ep, d) == [ep |-> ep, pkt |-> d.pkt, ipHdr |-> d.ipHdr, tcpHdr |-> d.tcpHdr]

\* Faulty variant: the length alone decides.
flushOnLengthOnly(ipHdr, flags, mtu) == ipHdr.totalLength # mtu

\* Faulty variant: the flags alone decide.
flushOnFlagsOnly(ipHdr, flags, mtu) ==
    (flags \cap {"URG", "PSH", "RST", "SYN", "FIN"}) # {}

\* Flush if the packet isn't MSS-sized or if certain flags are set.
flushDecision(ipHdr, flags, mtu) ==
    \/ ipHdr.totalLength # mtu
    \/ (flags \cap {"URG", "PSH", "RST", "SYN", "FIN"}) # {}

\* Faulty variant: the stored total length stays that of the first segment.
keepTotalLength(totalLength, tcpPayloadSize) == totalLength

\* Update the IP total length.
addTotalLength(totalLength, tcpPayloadSize) == Uint16(totalLength + tcpPayloadSize)

\* Faulty variant: the staged header keeps the flags it has.
keepFlags(groPktFlags, flags) == groPktFlags

\* Add flags from the packet to the GRO packet.
mergeFlags(groPktFlags, flags) == groPktFlags \cup (flags \cap {"FIN", "PSH"})

\* The part of dispatch that runs with gd.mu held.  p is the packet after the
\* filters, t is time.Now().
dispatchLocked(bks, t, p, ep, mtu) ==
    LET ipHdr == p.ipHdr
        tcpHdr == p.tcpHdr
        dataOff == tcpHdr.dataOffset
        tcpPayloadSize == Uint16(ipHdr.totalLength - IPv4MinimumSize - dataOff)
        bi == bucketForPacket(ipHdr, tcpHdr) % (groNBucketsMask + 1)
        bucket == bks[bi]
        found == findGROPacket(bucket, ipHdr, tcpHdr)
        flags == tcpHdr.flags
        \* Flush groPkt or merge the packets.
        old == bucket.packetsPrealloc[found.groPkt]
        merged == [old EXCEPT
                     !.pkt.size = old.pkt.size + (p.pkt.size - IPv4MinimumSize - dataOff),
                     !.pkt.segs = old.pkt.segs \o p.pkt.segs,
                     !.tcpHdr.flags = mergeFlags(old.tcpHdr.flags, flags),
                     !.ipHdr.totalLength =
                         addTotalLength(old.ipHdr.totalLength, tcpPayloadSize)]
        b1 == IF found.flush THEN removeOne(bucket, found.groPkt)
              ELSE IF found.groPkt # NilSlot
              THEN [bucket EXCEPT !.packetsPrealloc[found.groPkt] = merged]
              ELSE bucket
        out1 == IF found.flush THEN << Handle(ep, Deliverable(old)) >> ELSE << >>
        groPkt == IF found.flush THEN NilSlot ELSE found.groPkt
        flush == flushDecision(ipHdr, flags, mtu)
        evicted == removeOldest(b1)
    IN  IF found.fault # "none"
        THEN [buckets |-> bks, out |-> << >>, inc |-> << >>,
              fault |-> found.fault, locked |-> TRUE]
        ELSE IF flush /\ groPkt # NilSlot
        THEN [buckets |-> [bks EXCEPT ![bi] = removeOne(b1, groPkt)],
              out |-> out1 \o << Handle(ep, Deliverable(b1.packetsPrealloc[groPkt])) >>,
              inc |-> << >>, fault |-> "none", locked |-> TRUE]
        ELSE IF flush /\ groPkt = NilSlot
        THEN [buckets |-> [bks EXCEPT ![bi] = b1],
              out |-> out1 \o << Handle(ep, p) >>,
              inc |-> << >>, fault |-> "none", locked |-> TRUE]
        ELSE IF groPkt = NilSlot
        THEN IF full(b1)
             THEN IF evicted.fault # "none"
                  THEN [buckets |-> [bks EXCEPT ![bi] = b1], out |-> out1,
                        inc |-> << >>, fault |-> evicted.fault, locked |-> TRUE]
                  ELSE [buckets |-> [bks EXCEPT ![bi] =
                                       insert(evicted.gb, p.pkt, ipHdr, tcpHdr, ep, t)],
                        out |-> out1 \o << Handle(ep, evicted.ret) >>,
                        inc |-> << p.pkt.id >>, fault |-> "none", locked |-> TRUE]
             ELSE [buckets |-> [bks EXCEPT ![bi] =
                                  insert(b1, p.pkt, ipHdr, tcpHdr, ep, t)],
                   out |-> out1, inc |-> << p.pkt.id >>,
                   fault |-> "none", locked |-> TRUE]
        ELSE [buckets |-> [bks EXCEPT ![bi] = b1], out |-> out1,
              inc |-> << >>, fault |-> "none", locked |-> TRUE]

\* Faulty variant: the filters without the two checksum tests.
filteredNoChecksum(p, netProto) ==
    \/ netProto # IPv4ProtocolNumber
    \/ p.pkt.size < IPv4MinimumSize + TCPMinimumSize
    \/ p.ipHdr.fragmentOffset # 0 \/ p.ipHdr.mf \/ ~p.ipHdr.df
    \/ p.ipHdr.headerLength # IPv4MinimumSize
    \/ p.ipHdr.protocol # TCPProtocolNumber
    \/ p.tcpHdr.dataOffset < TCPMinimumSize
    \/ p.pkt.size < IPv4MinimumSize + p.tcpHdr.dataOffset
    \/ (~p.pkt.rxValidated /\ ~IsValid(p.ipHdr, p.pkt.size))

\* The filters of dispatch: TRUE when the packet is not a candidate for GRO.
\* PullUp(n) succeeds when the packet holds n bytes.
filtered(p, netProto) ==
    LET ipHdr == p.ipHdr
        tcpHdr == p.tcpHdr
        dataOff == tcpHdr.dataOffset
    IN  \/ netProto # IPv4ProtocolNumber
        \/ p.pkt.size < IPv4MinimumSize + TCPMinimumSize
        \/ ipHdr.fragmentOffset # 0 \/ ipHdr.mf \/ ~ipHdr.df
        \/ ipHdr.headerLength # IPv4MinimumSize
        \/ ipHdr.protocol # TCPProtocolNumber
        \/ dataOff < TCPMinimumSize
        \/ p.pkt.size < IPv4MinimumSize + dataOff
        \/ /\ ~p.pkt.rxValidated
           /\ \/ ~IsValid(ipHdr, p.pkt.size)
              \/ ~ipHdr.csumOK
              \/ ~tcpHdr.csumOK

\* Faulty variant: the shortcut tests for a negative interval.
disabledNegative(interval) == interval < 0

\* If GRO is disabled simply pass the packet along.
disabled(interval) == interval = 0

\* dispatch(pkt, netProto, ep, mtu) with gd.intervalNS = interval at time t.
dispatch(bks, interval, t, p, netProto, ep, mtu) ==
    IF disabled(interval) \/ filtered(p, netProto)
    THEN [buckets |-> bks, out |-> << Handle(ep, p) >>, inc |-> << >>,
          fault |-> "none", locked |-> FALSE]
    ELSE dispatchLocked(bks, t, [p EXCEPT !.pkt.rxValidated = TRUE], ep, mtu)

\* ------------------------------------------------------------ flush
\* created.Before(oldTime); the zero time.Time is before every instant.
Before(g, oldTime) == g.pkt.id = 0 \/ g.created < oldTime

\* The loop of flush over one bucket, from entry cur.  groPkt.Next() is read
\* after removeOne has run on groPkt.  A linked zero-value entry has a nil ep.
RECURSIVE flushFrom(_, _, _, _)
flushFrom(bucket, cur, oldTime, out) ==
    IF cur = NilSlot
    THEN [gb |-> bucket, out |-> out, fault |-> "none"]
    ELSE LET groPkt == bucket.packetsPrealloc[cur] IN
         IF Before(groPkt, oldTime)
         THEN IF groPkt.ep = NilEp
              THEN [gb |-> bucket, out |-> out, fault |-> "panic"]
              ELSE LET b1 == removeOne(bucket, cur)
                   IN  flushFrom(b1, b1.packetsPrealloc[cur].next, oldTime,
                                 Append(out, Handle(groPkt.ep, Deliverable(groPkt))))
         ELSE [gb |-> bucket, out |-> out, fault |-> "none"]

\* The index of the first bucket whose loop ended in a fault, groNBuckets if
\* there is none.
firstFault(rs) ==
    IF \A i \in BucketIdx : rs[i].fault = "none" THEN groNBuckets
    ELSE CHOOSE i \in BucketIdx :
            /\ rs[i].fault # "none"
            /\ \A j \in BucketIdx : j < i => rs[j].fault = "none"

\* The deliveries of the buckets 0 .. k - 1, in that order.
RECURSIVE outsUpTo(_, _)
outsUpTo(rs, k) == IF k = 0 THEN << >> ELSE outsUpTo(rs, k - 1) \o rs[k - 1].out

\* for i := range gd.buckets: rs[i] is the result of the inner loop on bucket
\* i; the loops run in the order of the buckets and end at the first fault.
flushBuckets(bks, rs) ==
    [buckets |-> [i \in BucketIdx |-> IF i <= firstFault(rs) THEN rs[i].gb ELSE bks[i]],
     out |-> outsUpTo(rs, IF firstFault(rs) = groNBuckets THEN groNBuckets
                          ELSE firstFault(rs) + 1),
     fault |-> IF firstFault(rs) = groNBuckets THEN "none"
               ELSE rs[firstFault(rs)].fault]

\* flush() with gd.intervalNS = interval at time t.
flush(bks, interval, t) ==
    flushBuckets(bks, [i \in BucketIdx |->
                         flushFrom(bks[i], Front(bks[i]), t - interval, << >>)])

\* ------------------------------------------------------------ flushAll
RECURSIVE flushAllFrom(_, _, _)
flushAllFrom(bucket, cur, out) ==
    IF cur = NilSlot
    THEN [gb |-> bucket, out |-> out, fault |-> "none"]
    ELSE LET groPkt == bucket.packetsPrealloc[cur] IN
         IF groPkt.ep = NilEp
         THEN [gb |-> bucket, out |-> out, fault |-> "panic"]
         ELSE LET b1 == removeOne(bucket, cur)
              IN  flushAllFrom(b1, b1.packetsPrealloc[cur].next,
                               Append(out, Handle(groPkt.ep, Deliverable(groPkt))))

flushAll(bks) ==
    flushBuckets(bks, [i \in BucketIdx |->
                         flushAllFrom(bks[i], Front(bks[i]), << >>)])

\* ------------------------------------------------------------ close
\* The drain loop of close over one bucket: DecRef on every entry, nothing is
\* unlinked.  dec lists the packets released so far.  DecRef of a nil packet
\* and a second DecRef of a packet this walk already released both panic.
RECURSIVE closeFrom(_, _, _)
closeFrom(bucket, cur, dec) ==
    IF cur = NilSlot
    THEN [dec |-> dec, fault |-> "none"]
    ELSE LET groPkt == bucket.packetsPrealloc[cur] IN
         IF groPkt.pkt.id = 0 \/ \E k \in 1 .. Len(dec) : dec[k] = groPkt.pkt.id
         THEN [dec |-> dec, fault |-> "panic"]
         ELSE closeFrom(bucket, groPkt.next, Append(dec, groPkt.pkt.id))

\* The packets released by the buckets 0 .. k - 1, in that order.
RECURSIVE decsUpTo(_, _)
decsUpTo(rs, k) == IF k = 0 THEN << >> ELSE decsUpTo(rs, k - 1) \o rs[k - 1].dec

closeBuckets(rs) ==
    [dec |-> decsUpTo(rs, IF firstFault(rs) = groNBuckets THEN groNBuckets
                          ELSE firstFault(rs) + 1),
     fault |-> IF firstFault(rs) = groNBuckets THEN "none"
               ELSE rs[firstFault(rs)].fault]

close(bks) ==
    closeBuckets([i \in BucketIdx |-> closeFrom(bks[i], Front(bks[i]), << >>)])

\* ------------------------------------------------------------ inputs
Endpoints == {1, 2}

\* Flow 0 hashes to another bucket than the flows 1, 2, ...; those share one.
FlowSrc(f) == IF f = 0 THEN <<10, 0, 0, 3>> ELSE <<10, 0, 0, 1>>
FlowDst(f) == <<10, 0, 0, 2>>
FlowSrcPort(f) == 1024 + 8 * f
FlowDstPort(f) == 80
\* Initial sequence number: the second full segment wraps around 2^32.
FlowISN(f) == <<65535, 40000 + f>>

\* Payload of the short trailing segment: with two full segments staged it
\* brings the coalesced size to groMaxPacketSize - 1.
ShortPayload == groMaxPacketSize - 1 - (2 * Mtu - IPv4MinimumSize - TCPMinimumSize)

\* The kinds of packet: a full segment; a short segment with PSH; a full
\* segment with another ACK number, handed over for endpoint 2; a full segment
\* with DF clear.
Kinds == {"mss", "psh", "ack", "nodf"}

KindEp(k) == IF k = "ack" THEN 2 ELSE 1

\* The kinds of packet a filter of dispatch turns away: another network
\* protocol; a buffer too short for the two minimal headers; a fragment
\* offset; MF set; IP options; not TCP; a data offset below the minimum; a
\* buffer too short for the TCP options; a total length beyond the buffer; a
\* bad IPv4 checksum; a bad TCP checksum.
Anomalies == {"ipv6", "runt", "frag", "mf", "ipopts", "udp", "badoff",
              "tcptrunc", "badlen", "badipsum", "badtcpsum"}

\* A full segment the link layer has validated already, whose checksums the
\* dispatcher therefore does not look at; a short segment without PSH, one
\* byte longer than the short trailing one; a full segment with four bytes of
\* TCP options; a full segment with FIN; a full segment that starts one byte
\* after, and one that starts one byte before, the end of what the flow has
\* sent.
AllKinds == Kinds \cup Anomalies
            \cup {"nodf", "trusted", "edge", "opts", "fin", "gap", "overlap"}

\* The netProto argument that comes with a packet of kind k.
KindProto(k) == IF k = "ipv6" THEN 34525 ELSE IPv4ProtocolNumber

\* The TCP payload bytes of a packet of kind k.
KindPayload(k) ==
    IF k = "psh" THEN ShortPayload
    ELSE IF k = "edge" THEN ShortPayload + 1
    ELSE IF k \in {"runt", "tcptrunc"} THEN 0
    ELSE IF k = "opts" THEN Mtu - IPv4MinimumSize - TCPMinimumSize - 4
    ELSE Mtu - IPv4MinimumSize - TCPMinimumSize

\* How far the sequence number of a packet of kind k is from the byte that
\* follows what its flow has sent.
KindSeqSkew(k) ==
    IF k = "gap" THEN 1 ELSE IF k = "overlap" THEN 0 - 1 ELSE 0

\* The packet of sequence-space offset off of flow f, numbered id.
Packet(id, f, k, off) ==
    LET payload == KindPayload(k)
        total == IF k = "opts" THEN Mtu
                 ELSE IPv4MinimumSize + TCPMinimumSize + payload
        size == IF k = "runt" THEN total - 1
                ELSE IF k = "badlen" THEN total - 1
                ELSE total
    IN  [pkt |-> [id |-> id, segs |-> << id >>, size |-> size,
                  rxValidated |-> (k = "trusted")],
         ipHdr |-> [totalLength |-> total,
                    headerLength |-> IF k = "ipopts" THEN IPv4MinimumSize + 4
                                     ELSE IPv4MinimumSize,
                    df |-> (k # "nodf"), mf |-> (k = "mf"),
                    fragmentOffset |-> IF k = "frag" THEN 8 ELSE 0,
                    protocol |-> IF k = "udp" THEN 17 ELSE TCPProtocolNumber,
                    ttl |-> 64, tos |-> 0,
                    src |-> FlowSrc(f), dst |-> FlowDst(f),
                    csumOK |-> (k \notin {"badipsum", "trusted"})],
         tcpHdr |-> [srcPort |-> FlowSrcPort(f), dstPort |-> FlowDstPort(f),
                     seq |-> Add32(FlowISN(f), off + KindSeqSkew(k)),
                     ack |-> IF k = "ack" THEN <<0, 2>> ELSE <<0, 1>>,
                     flags |-> IF k = "psh" THEN {"ACK", "PSH"}
                               ELSE IF k = "fin" THEN {"ACK", "FIN"}
                               ELSE {"ACK"},
                     dataOffset |-> IF k = "badoff" THEN TCPMinimumSize - 4
                                    ELSE IF k \in {"tcptrunc", "opts"}
                                    THEN TCPMinimumSize + 4
                                    ELSE TCPMinimumSize,
                     opts |-> IF k = "opts" THEN <<1, 1, 1, 1>> ELSE << >>,
                     csumOK |-> (k \notin {"badtcpsum", "trusted"})]]

\* ------------------------------------------------------------ state
VARIABLES
    buckets,      \* gd.buckets
    intervalNS,   \* gd.intervalNS
    newInterval,  \* number of signals buffered in gd.newInterval (capacity 1)
    wInterval,    \* the worker goroutine's local interval
    tickAt,       \* when the worker's ticker next fires
    closePc,      \* position of the close() caller: "idle", "blocked", "done"
    setPc,        \* position of the setInterval caller
    nSets,        \* setInterval calls so far
    now,          \* the monotonic clock
    rxq,          \* packets of the initial burst still to be dispatched
    entered,      \* history: the packets handed to dispatch, in order
    delivered,    \* history: the HandlePacket calls, in order
    incRefs,      \* history: packets IncRef'ed by insert
    decRefs,      \* history: packets DecRef'ed by the dispatcher
    fault,        \* "none", or how the program stopped: "panic" or "hang"
    lastOp,       \* the handler that ran last
    mu,           \* gd.mu: "free" or the goroutine that holds it
    pc            \* where each goroutine is between Lock() and Unlock()

vars == << buckets, intervalNS, newInterval, wInterval, tickAt, closePc, setPc,
           nSets, now, rxq, entered, delivered, incRefs, decRefs, fault, lastOp,
           mu, pc >>

\* The goroutines that use the bucket table: two callers of dispatch, the
\* worker of start(), the caller of close() and the caller of String().
Goroutines == {"rx1", "rx2", "worker", "closer", "printer"}

\* A goroutine outside every handler.  Inside a handler, at names the handler,
\* id the packet of a dispatch call, and interval and t what flush read
\* before it took the mutex.
Idle == [at |-> "idle", id |-> 0, interval |-> 0, t |-> 0]

\* close() has returned: the worker has taken the stop signal and the drain
\* loop has run.
closed == closePc = "done"

\* Bytes of sequence space flow f has used so far.
RECURSIVE SentBytes(_, _)
SentBytes(f, n) ==
    IF n = 0 THEN 0
    ELSE (IF entered[n].flow = f THEN entered[n].payload ELSE 0) + SentBytes(f, n - 1)

\* The highest flow seen so far.
NFlows == IF entered = << >> THEN 0
          ELSE CHOOSE m \in 0 .. (groBucketSize + MaxPkts) :
                 /\ \A n \in 1 .. Len(entered) : entered[n].flow <= m
                 /\ (m = 0 \/ \E n \in 1 .. Len(entered) : entered[n].flow = m)

\* The packets the link may hand to dispatch next, as <<flow, kind>>: a full
\* segment of flow 0; any kind of the oldest flow; a full or a short segment
\* of the newest flow; a full segment of a flow not seen so far.
Stimuli ==
    {<<0, "mss">>, <<NFlows + 1, "mss">>}
    \cup (IF NFlows >= 1 THEN {<<1, k>> : k \in Kinds} ELSE {})
    \cup (IF NFlows >= 2 THEN {<<NFlows, k>> : k \in {"mss", "psh"}} ELSE {})

\* The burst a link delivers first, as <<flow, kind>>: one full segment of
\* each of the flows 1 .. groBucketSize.
Burst == [i \in 1 .. groBucketSize |-> <<i, "mss">>]

\* groDispatcher.init(interval) and the goroutine of start(interval).
Init ==
    /\ buckets = [i \in BucketIdx |-> groBucket]
    /\ mu = "free"
    /\ pc = [g \in Goroutines |-> Idle]
    /\ intervalNS \in {0, Interval}
    /\ newInterval = 0
    /\ wInterval = intervalNS
    /\ now = 0
    /\ tickAt = IF intervalNS = 0 THEN 0 ELSE now + intervalNS
    /\ closePc = "idle"
    /\ setPc = "idle"
    /\ nSets = 0
    /\ rxq \in {<< >>, Burst}
    /\ entered = << >>
    /\ delivered = << >>
    /\ incRefs = << >>
    /\ decRefs = << >>
    /\ fault = "none"
    /\ lastOp = "init"

Running == fault = "none"

\* One call of dispatch for packet kind k of flow f.
DoDispatch(f, k) ==
    LET id == Len(entered) + 1
        p == Packet(id, f, k, SentBytes(f, Len(entered)))
        r == dispatch(buckets, intervalNS, now, p, KindProto(k), KindEp(k), Mtu)
    IN  /\ buckets' = r.buckets
        /\ entered' = Append(entered,
                [flow |-> f, payload |-> KindPayload(k),
                 ep |-> KindEp(k), netProto |-> KindProto(k), pkt |-> p,
                 burst |-> (rxq # << >>)])
        /\ delivered' = delivered \o r.out
        /\ incRefs' = incRefs \o r.inc
        /\ fault' = r.fault
        /\ lastOp' = IF r.locked THEN "dispatch" ELSE "dispatchPass"
        /\ UNCHANGED << mu, pc, intervalNS, newInterval, wInterval, tickAt, closePc, setPc,
                        nSets, now, decRefs >>

DispatchBurst ==
    /\ Running /\ ~closed /\ rxq # << >>
    /\ DoDispatch(Head(rxq)[1], Head(rxq)[2])
    /\ rxq' = Tail(rxq)

Dispatch ==
    /\ Running /\ ~closed /\ rxq = << >>
    /\ Len(entered) < (IF NFlows >= Len(Burst) THEN Len(Burst) + MaxPkts - 1
                                                ELSE MaxPkts)
    /\ \E s \in Stimuli : DoDispatch(s[1], s[2])
    /\ UNCHANGED rxq

\* case <-ch: gd.flush()
TimerFlush ==
    /\ Running /\ ~closed /\ rxq = << >>
    /\ wInterval # 0 /\ now >= tickAt
    /\ LET r == flush(buckets, intervalNS, now)
       IN  /\ buckets' = r.buckets
           /\ delivered' = delivered \o r.out
           /\ fault' = r.fault
    /\ tickAt' = now + wInterval
    /\ lastOp' = "flush"
    /\ UNCHANGED << mu, pc, intervalNS, newInterval, wInterval, closePc, setPc, nSets, now,
                    rxq, entered, incRefs, decRefs >>

\* Faulty variant: the worker keeps the interval it has.
keepInterval(stored, local) == local

\* interval = time.Duration(gd.intervalNS.Load()) * time.Nanosecond
loadInterval(stored, local) == stored

\* time.NewTicker(d) panics when d is not positive.
NewTicker(d) == IF d <= 0 THEN "panic" ELSE "none"

\* case <-gd.newInterval with a zero interval loaded: flushAll, ticker off.
WorkerDisable ==
    /\ Running /\ ~closed /\ rxq = << >>
    /\ newInterval = 1 /\ loadInterval(intervalNS, wInterval) = 0
    /\ newInterval' = 0
    /\ wInterval' = 0
    /\ LET r == flushAll(buckets)
       IN  /\ buckets' = r.buckets
           /\ delivered' = delivered \o r.out
           /\ fault' = r.fault
    /\ tickAt' = 0
    /\ lastOp' = "flushAll"
    /\ UNCHANGED << mu, pc, intervalNS, closePc, setPc, nSets, now, rxq, entered, incRefs,
                    decRefs >>

\* case <-gd.newInterval with a non-zero interval loaded: a new ticker.
WorkerRearm ==
    /\ Running /\ ~closed /\ rxq = << >>
    /\ newInterval = 1 /\ loadInterval(intervalNS, wInterval) # 0
    /\ newInterval' = 0
    /\ wInterval' = loadInterval(intervalNS, wInterval)
    /\ tickAt' = now + wInterval'
    /\ fault' = NewTicker(wInterval')
    /\ lastOp' = "rearm"
    /\ UNCHANGED << mu, pc, buckets, intervalNS, closePc, setPc, nSets, now, rxq, entered,
                    delivered, incRefs, decRefs >>

\* setInterval: gd.intervalNS.Store(interval)
SetIntervalStore ==
    /\ Running /\ rxq = << >>
    /\ setPc = "idle" /\ nSets < MaxSets
    /\ intervalNS' = (IF intervalNS = 0 THEN Interval ELSE 0)
    /\ setPc' = "send"
    /\ nSets' = nSets + 1
    /\ lastOp' = "store"
    /\ UNCHANGED << mu, pc, buckets, newInterval, wInterval, tickAt, closePc, now, rxq,
                    entered, delivered, incRefs, decRefs, fault >>

\* setInterval: gd.newInterval <- struct{}{}, which waits while the buffer
\* of the channel is full.
SetIntervalSend ==
    /\ Running
    /\ setPc = "send" /\ newInterval = 0
    /\ newInterval' = 1
    /\ setPc' = "idle"
    /\ lastOp' = "send"
    /\ UNCHANGED << mu, pc, buckets, intervalNS, wInterval, tickAt, closePc, nSets, now, rxq,
                    entered, delivered, incRefs, decRefs, fault >>

\* close(): the worker takes the stop signal and returns, then the drain loop.
Close ==
    /\ Running /\ ~closed /\ rxq = << >>
    /\ closePc' = "done"
    /\ LET r == close(buckets)
       IN  /\ decRefs' = decRefs \o r.dec
           /\ fault' = r.fault
    /\ lastOp' = "close"
    /\ UNCHANGED << mu, pc, buckets, intervalNS, newInterval, wInterval, tickAt, setPc,
                    nSets, now, rxq, entered, delivered, incRefs >>

Tick ==
    /\ Running /\ ~closed /\ rxq = << >>
    /\ now < MaxTime
    /\ now' = now + 1
    /\ lastOp' = "tick"
    /\ UNCHANGED << mu, pc, buckets, intervalNS, newInterval, wInterval, tickAt, closePc,
                    setPc, nSets, rxq, entered, delivered, incRefs, decRefs, fault >>

Next ==
    \/ DispatchBurst
    \/ Dispatch
    \/ TimerFlush
    \/ WorkerDisable
    \/ WorkerRearm
    \/ SetIntervalStore
    \/ SetIntervalSend
    \/ Close
    \/ Tick

Spec == Init /\ [][Next]_vars

\* ------------------------------------------------------------ scenarios
\* A second specification: short openings that stage packets, one packet of
\* any kind after them, and a caller of setInterval that may pass any
\* duration, negative ones included.
TwoFlows == << <<1, "mss">>, <<2, "mss">> >>
Merged == << <<1, "mss">>, <<1, "mss">> >>
Reuse == << <<1, "mss">>, <<2, "mss">>, <<2, "psh">>, <<3, "mss">> >>

Openings == {TwoFlows, Merged, Reuse}

Durations == {0, Interval, 0 - Interval}

ScenarioInit ==
    /\ buckets = [i \in BucketIdx |-> groBucket]
    /\ mu = "free"
    /\ pc = [g \in Goroutines |-> Idle]
    /\ intervalNS \in Durations
    /\ newInterval = 0
    /\ wInterval = intervalNS
    /\ now = 0
    /\ tickAt = IF intervalNS = 0 THEN 0 ELSE now + intervalNS
    /\ closePc = "idle"
    /\ setPc = "idle"
    /\ nSets = 0
    /\ rxq \in Openings
    /\ entered = << >>
    /\ delivered = << >>
    /\ incRefs = << >>
    /\ decRefs = << >>
    /\ fault = IF intervalNS = 0 THEN "none" ELSE NewTicker(intervalNS)
    /\ lastOp = "init"

\* The packets dispatched after the opening.
FreeCount == Cardinality({n \in 1 .. Len(entered) : ~entered[n].burst})

ScenarioStimuli == {<<f, k>> : f \in {1, 2, NFlows + 1}, k \in AllKinds}

\* One dispatch call after the opening, for a packet drawn from S.
DispatchFrom(S) ==
    /\ Running /\ ~closed /\ rxq = << >>
    /\ FreeCount < FreePkts
    /\ \E s \in S : DoDispatch(s[1], s[2])
    /\ UNCHANGED rxq

ScenarioDispatch == DispatchFrom(ScenarioStimuli)

\* setInterval(d) for any duration d: gd.intervalNS.Store(d)
ScenarioSetIntervalStore ==
    /\ Running /\ rxq = << >>
    /\ setPc = "idle" /\ nSets < MaxCtlSets
    /\ \E d \in Durations \ {intervalNS} : intervalNS' = d
    /\ setPc' = "send"
    /\ nSets' = nSets + 1
    /\ lastOp' = "store"
    /\ UNCHANGED << mu, pc, buckets, newInterval, wInterval, tickAt, closePc, now, rxq,
                    entered, delivered, incRefs, decRefs, fault >>

ScenarioNext ==
    \/ DispatchBurst
    \/ ScenarioDispatch
    \/ TimerFlush
    \/ WorkerDisable
    \/ WorkerRearm
    \/ ScenarioSetIntervalStore
    \/ SetIntervalSend
    \/ Close
    \/ Tick

ScenarioSpec == ScenarioInit /\ [][ScenarioNext]_vars

\* A third specification, for what the goroutines eventually do: the same
\* openings and setInterval caller, one full segment of a staged or of a new
\* flow after the opening, and a close() call that may find gd.mu held.
FairStimuli == {<<f, "mss">> : f \in {1, NFlows + 1}}

FairDispatch == DispatchFrom(FairStimuli)

\* close() called while a dispatch call is stuck in findGROPacket with gd.mu
\* held: the worker waits for gd.mu in flush or close waits for it at
\* gd.mu.Lock(), and close does not return.
CloseBlocked ==
    /\ fault = "hang" /\ closePc = "idle" /\ rxq = << >>
    /\ closePc' = "blocked"
    /\ lastOp' = "closeBlocked"
    /\ UNCHANGED << mu, pc, buckets, intervalNS, newInterval, wInterval, tickAt, setPc,
                    nSets, now, rxq, entered, delivered, incRefs, decRefs, fault >>

FairNext ==
    \/ DispatchBurst
    \/ FairDispatch
    \/ TimerFlush
    \/ WorkerDisable
    \/ WorkerRearm
    \/ ScenarioSetIntervalStore
    \/ SetIntervalSend
    \/ Close
    \/ CloseBlocked
    \/ Tick

\* The Go scheduler runs a goroutine that can make a step: the worker takes a
\* signal or a tick that is ready, and a channel send that can proceed does.
FairSpec ==
    /\ ScenarioInit /\ [][FairNext]_vars
    /\ WF_vars(TimerFlush)
    /\ WF_vars(WorkerDisable)
    /\ WF_vars(WorkerRearm)
    /\ WF_vars(SetIntervalSend)

\* A specification for what ageing does in the end: FairSpec with a clock
\* that goes on.  Beyond MaxTime the instants are not told apart: now stays,
\* and the ticker of the worker fires again.
TickLate ==
    /\ Running /\ ~closed /\ rxq = << >>
    /\ now = MaxTime /\ wInterval # 0 /\ tickAt > now
    /\ tickAt' = now
    /\ lastOp' = "tick"
    /\ UNCHANGED << mu, pc, buckets, intervalNS, newInterval, wInterval, closePc,
                    setPc, nSets, now, rxq, entered, delivered, incRefs, decRefs,
                    fault >>

AgeNext ==
    \/ DispatchBurst
    \/ FairDispatch
    \/ TimerFlush
    \/ WorkerDisable
    \/ WorkerRearm
    \/ ScenarioSetIntervalStore
    \/ SetIntervalSend
    \/ Close
    \/ CloseBlocked
    \/ Tick
    \/ TickLate

\* Time passes, the ticker fires, and the Go scheduler runs a goroutine that
\* can make a step.
AgeSpec ==
    /\ ScenarioInit /\ [][AgeNext]_vars
    /\ WF_vars(Tick)
    /\ WF_vars(TickLate)
    /\ WF_vars(TimerFlush)
    /\ WF_vars(WorkerDisable)
    /\ WF_vars(WorkerRearm)
    /\ WF_vars(SetIntervalSend)

\* ------------------------------------------------------------ gd.mu
\* A fourth specification, for the mutex: every handler is two steps, one up
\* to the return of gd.mu.Lock() and one for the rest of the handler up to
\* the deferred gd.mu.Unlock(), and the goroutines interleave between them.

\* Faulty variant: Lock() returns without waiting for the holder.
LockNoWait(m) == TRUE

\* gd.mu.Lock() returns when no goroutine holds the mutex.
Lock(m) == m = "free"

\* Goroutine g takes the mutex and is in its handler with locals r.
Enter(g, r) ==
    /\ Lock(mu)
    /\ mu' = g
    /\ pc' = [pc EXCEPT ![g] = r]

\* defer gd.mu.Unlock(): runs when the handler returns or panics; a handler
\* that never returns keeps the mutex.
Leave(g, f) ==
    /\ mu' = IF f = "hang" THEN mu ELSE "free"
    /\ pc' = IF f = "hang" THEN pc ELSE [pc EXCEPT ![g] = Idle]

Callers == {"rx1", "rx2"}

\* The packets the callers hand to dispatch: a full segment of flow 1 or of
\* a new flow, and one with a bad IPv4 checksum.
LockStimuli == {<<1, "mss">>, <<NFlows + 1, "mss">>, <<1, "badipsum">>}

\* dispatch from its first line up to gd.mu.Lock(): the interval is read,
\* GRO is on and no filter turns the packet away.  The call then waits for
\* the mutex.
RxEnter(g) ==
    /\ Running /\ ~closed /\ pc[g] = Idle
    /\ Len(entered) < MaxPkts
    /\ \E s \in LockStimuli :
          LET id == Len(entered) + 1
              p == Packet(id, s[1], s[2], SentBytes(s[1], Len(entered)))
          IN  /\ ~disabled(intervalNS)
              /\ ~filtered(p, KindProto(s[2]))
              /\ entered' = Append(entered,
                      [flow |-> s[1], payload |-> KindPayload(s[2]),
                       ep |-> KindEp(s[2]), netProto |-> KindProto(s[2]),
                       pkt |-> p, burst |-> FALSE])
              /\ pc' = [pc EXCEPT ![g] = [Idle EXCEPT !.at = "wait", !.id = id]]
    /\ lastOp' = "enter"
    /\ UNCHANGED << mu, buckets, intervalNS, newInterval, wInterval, tickAt,
                    closePc, setPc, nSets, now, rxq, delivered, incRefs, decRefs,
                    fault >>

\* gd.mu.Lock() in dispatch.
RxLock(g) ==
    /\ Running /\ pc[g].at = "wait"
    /\ Enter(g, [pc[g] EXCEPT !.at = "dispatch"])
    /\ lastOp' = "lock"
    /\ UNCHANGED << buckets, intervalNS, newInterval, wInterval, tickAt, closePc,
                    setPc, nSets, now, rxq, entered, delivered, incRefs, decRefs,
                    fault >>

\* dispatch from gd.mu.Lock() to its return.
RxUnlock(g) ==
    /\ Running /\ pc[g].at = "dispatch"
    /\ LET e == entered[pc[g].id]
           r == dispatchLocked(buckets, now,
                               [e.pkt EXCEPT !.pkt.rxValidated = TRUE], e.ep, Mtu)
       IN  /\ buckets' = r.buckets
           /\ delivered' = delivered \o r.out
           /\ incRefs' = incRefs \o r.inc
           /\ fault' = r.fault
           /\ Leave(g, r.fault)
    /\ lastOp' = "dispatch"
    /\ UNCHANGED << intervalNS, newInterval, wInterval, tickAt, closePc, setPc,
                    nSets, now, rxq, entered, decRefs >>

\* dispatch for a packet that the shortcut or a filter hands to the endpoint
\* at once: the call never reaches gd.mu.Lock().
RxPass(g) ==
    /\ Running /\ ~closed /\ pc[g] = Idle
    /\ Len(entered) < MaxPkts
    /\ \E s \in LockStimuli :
          /\ \/ disabled(intervalNS)
             \/ filtered(Packet(Len(entered) + 1, s[1], s[2],
                                 SentBytes(s[1], Len(entered))), KindProto(s[2]))
          /\ DoDispatch(s[1], s[2])
    /\ UNCHANGED rxq

DispatchEnter == \E g \in Callers : RxEnter(g)
DispatchLock == \E g \in Callers : RxLock(g)
DispatchUnlock == \E g \in Callers : RxUnlock(g)
DispatchPass == \E g \in Callers : RxPass(g)

\* case <-ch: gd.flush(), up to gd.mu.Lock(): the interval and the time are
\* read before the mutex is taken.
FlushLock ==
    /\ Running /\ pc["worker"] = Idle
    /\ wInterval # 0 /\ now >= tickAt
    /\ Enter("worker", [Idle EXCEPT !.at = "flush", !.interval = intervalNS,
                                     !.t = now])
    /\ tickAt' = now + wInterval
    /\ lastOp' = "lock"
    /\ UNCHANGED << buckets, intervalNS, newInterval, wInterval, closePc, setPc,
                    nSets, now, rxq, entered, delivered, incRefs, decRefs, fault >>

\* gd.flush() from gd.mu.Lock() to its return.
FlushUnlock ==
    /\ Running /\ pc["worker"].at = "flush"
    /\ LET r == flush(buckets, pc["worker"].interval, pc["worker"].t)
       IN  /\ buckets' = r.buckets
           /\ delivered' = delivered \o r.out
           /\ fault' = r.fault
           /\ Leave("worker", r.fault)
    /\ lastOp' = "flush"
    /\ UNCHANGED << intervalNS, newInterval, wInterval, tickAt, closePc, setPc,
                    nSets, now, rxq, entered, incRefs, decRefs >>

\* case <-gd.newInterval with a zero interval loaded, up to gd.mu.Lock() in
\* flushAll.
FlushAllLock ==
    /\ Running /\ pc["worker"] = Idle
    /\ newInterval = 1 /\ loadInterval(intervalNS, wInterval) = 0
    /\ newInterval' = 0
    /\ wInterval' = 0
    /\ tickAt' = 0
    /\ Enter("worker", [Idle EXCEPT !.at = "flushAll"])
    /\ lastOp' = "lock"
    /\ UNCHANGED << buckets, intervalNS, closePc, setPc, nSets, now, rxq, entered,
                    delivered, incRefs, decRefs, fault >>

\* gd.flushAll() from gd.mu.Lock() to its return.
FlushAllUnlock ==
    /\ Running /\ pc["worker"].at = "flushAll"
    /\ LET r == flushAll(buckets)
       IN  /\ buckets' = r.buckets
           /\ delivered' = delivered \o r.out
           /\ fault' = r.fault
           /\ Leave("worker", r.fault)
    /\ lastOp' = "flushAll"
    /\ UNCHANGED << intervalNS, newInterval, wInterval, tickAt, closePc, setPc,
                    nSets, now, rxq, entered, incRefs, decRefs >>

\* The worker is in its select when it takes the newInterval signal.
LockRearm == pc["worker"] = Idle /\ WorkerRearm

\* close() up to gd.mu.Lock(): the worker, in its select, takes the stop
\* signal and returns.
CloseLock ==
    /\ Running /\ closePc = "idle"
    /\ pc["closer"] = Idle /\ pc["worker"] = Idle
    /\ Lock(mu)
    /\ mu' = "closer"
    /\ pc' = [pc EXCEPT !["closer"] = [Idle EXCEPT !.at = "close"],
                         !["worker"] = [Idle EXCEPT !.at = "stopped"]]
    /\ lastOp' = "lock"
    /\ UNCHANGED << buckets, intervalNS, newInterval, wInterval, tickAt, closePc,
                    setPc, nSets, now, rxq, entered, delivered, incRefs, decRefs,
                    fault >>

\* close() from gd.mu.Lock() to its return.
CloseUnlock ==
    /\ Running /\ pc["closer"].at = "close"
    /\ LET r == close(buckets)
       IN  /\ decRefs' = decRefs \o r.dec
           /\ fault' = r.fault
           /\ Leave("closer", r.fault)
    /\ closePc' = "done"
    /\ lastOp' = "close"
    /\ UNCHANGED << buckets, intervalNS, newInterval, wInterval, tickAt, setPc,
                    nSets, now, rxq, entered, delivered, incRefs >>

\* String() up to gd.mu.Lock().
StringLock ==
    /\ Running /\ pc["printer"] = Idle
    /\ Enter("printer", [Idle EXCEPT !.at = "String"])
    /\ lastOp' = "lock"
    /\ UNCHANGED << buckets, intervalNS, newInterval, wInterval, tickAt, closePc,
                    setPc, nSets, now, rxq, entered, delivered, incRefs, decRefs,
                    fault >>

\* String() from gd.mu.Lock() to its return: it reads count and walks the
\* list of every bucket.
StringUnlock ==
    /\ Running /\ pc["printer"].at = "String"
    /\ Leave("printer", "none")
    /\ lastOp' = "String"
    /\ UNCHANGED << buckets, intervalNS, newInterval, wInterval, tickAt, closePc,
                    setPc, nSets, now, rxq, entered, delivered, incRefs, decRefs,
                    fault >>

LockInit == Init /\ rxq = << >>

LockNext ==
    \/ DispatchEnter
    \/ DispatchLock
    \/ DispatchUnlock
    \/ DispatchPass
    \/ FlushLock
    \/ FlushUnlock
    \/ FlushAllLock
    \/ FlushAllUnlock
    \/ LockRearm
    \/ SetIntervalStore
    \/ SetIntervalSend
    \/ CloseLock
    \/ CloseUnlock
    \/ StringLock
    \/ StringUnlock
    \/ Tick

LockSpec == LockInit /\ [][LockNext]_vars

\* ------------------------------------------------------------ observations
\* The entries a walk from Front() visits, in order; the walk stops at nil
\* or when it comes back to an entry it has visited.
RECURSIVE LinkedFrom(_, _, _)
LinkedFrom(gb, cur, acc) ==
    IF cur = NilSlot \/ (\E k \in 1 .. Len(acc) : acc[k] = cur)
    THEN acc
    ELSE LinkedFrom(gb, gb.packetsPrealloc[cur].next, Append(acc, cur))

Linked(gb) == LinkedFrom(gb, gb.head, << >>)

\* The staged entries of a bucket: the linked entries that hold a packet.
Staged(gb) ==
    LET l == Linked(gb)
    IN  {e \in Slots : /\ \E k \in 1 .. Len(l) : l[k] = e
                       /\ gb.packetsPrealloc[e].pkt.id # 0}

RECURSIVE Flatten(_)
Flatten(ss) == IF ss = << >> THEN << >> ELSE Head(ss) \o Flatten(Tail(ss))

\* The segments handed to the endpoint so far, in the order of delivery.
DeliveredSegs == Flatten([i \in 1 .. Len(delivered) |-> delivered[i].pkt.segs])

Count(s, x) == Cardinality({k \in 1 .. Len(s) : s[k] = x})

\* How often segment id occurs in entries linked in a bucket list.
StagedCount(id) ==
    SumSeq([i \in 1 .. groNBuckets |->
              Cardinality({e \in Staged(buckets[i - 1]) :
                 \E k \in 1 .. Len(buckets[i - 1].packetsPrealloc[e].pkt.segs) :
                    buckets[i - 1].packetsPrealloc[e].pkt.segs[k] = id})])

FourTuple(h) == << h.ipHdr.src, h.ipHdr.dst, h.tcpHdr.srcPort, h.tcpHdr.dstPort >>

SegTuple(id) == FourTuple(entered[id].pkt)

SegPayload(id) == entered[id].payload

PayloadSum(segs) == SumSeq([k \in 1 .. Len(segs) |-> SegPayload(segs[k])])

\* ------------------------------------------------------------ claims

\* C1: per-flow FIFO.  Of any two segments of one 4-tuple handed to the
\* endpoint, the one handed over first entered dispatch first, whichever path
\* each of them took.
C1_PerFlowFIFO ==
    \A i, j \in 1 .. Len(DeliveredSegs) :
        (i < j /\ SegTuple(DeliveredSegs[i]) = SegTuple(DeliveredSegs[j]))
            => DeliveredSegs[i] < DeliveredSegs[j]

\* C2: no loss, no duplication.  Before close, every segment that entered
\* dispatch has either been handed to the endpoint exactly once or is held by
\* exactly one entry linked in a bucket list.
C2_NoLossNoDup ==
    (~closed /\ fault = "none") =>
        \A id \in 1 .. Len(entered) :
            Count(DeliveredSegs, id) + StagedCount(id) = 1

\* C3: at most one staged entry per flow.  No bucket list links two entries
\* with the same 4-tuple.
C3_AtMostOneStaged ==
    \A i \in BucketIdx :
        \A a, b \in Staged(buckets[i]) :
            FourTuple(buckets[i].packetsPrealloc[a])
                = FourTuple(buckets[i].packetsPrealloc[b]) => a = b

\* A bucket holds several flows; a segment was merged into the entry of its
\* flow, and the entry of another flow was flushed for a header mismatch and
\* its flow staged again.
C3_Witness ==
    \E i \in BucketIdx :
        /\ Cardinality(Staged(buckets[i])) >= 2
        /\ \E e \in Staged(buckets[i]) :
              Len(buckets[i].packetsPrealloc[e].pkt.segs) >= 2
        /\ \E e \in Staged(buckets[i]) : \E k \in 1 .. Len(delivered) :
              FourTuple(delivered[k]) = FourTuple(buckets[i].packetsPrealloc[e])

\* C4: bounded staging.  In every bucket count is between 0 and groBucketSize
\* and equals the number of entries linked in the bucket's list.
C4_BoundedStaging ==
    \A i \in BucketIdx :
        /\ buckets[i].count >= 0
        /\ buckets[i].count <= groBucketSize
        /\ buckets[i].count = Len(Linked(buckets[i]))

\* C5: coalesced size bound.  Every coalesced packet, staged or handed to the
\* endpoint, carries less than groMaxPacketSize bytes of payload, and its
\* stored 16-bit total length is the true length: the headers plus the
\* payloads of the segments merged into it, which is at most 65535.
C5_Sized(h) ==
    /\ PayloadSum(h.pkt.segs) < groMaxPacketSize
    /\ h.ipHdr.totalLength
         = IPv4MinimumSize + h.tcpHdr.dataOffset + PayloadSum(h.pkt.segs)

C5_SizeBound ==
    /\ \A i \in BucketIdx : \A e \in Staged(buckets[i]) :
          C5_Sized(buckets[i].packetsPrealloc[e])
    /\ \A k \in 1 .. Len(delivered) : C5_Sized(delivered[k])

\* The limit has refused a merge: an entry of two full segments was handed
\* over alone, and the segment that follows it in sequence, with the same
\* headers otherwise, is staged anew.
C5_Witness ==
    \E k \in 1 .. Len(delivered) : \E i \in BucketIdx : \E e \in Staged(buckets[i]) :
        LET d == delivered[k]
            g == buckets[i].packetsPrealloc[e]
        IN  /\ Len(d.pkt.segs) = 2
            /\ FourTuple(d) = FourTuple(g)
            /\ d.tcpHdr.flags = g.tcpHdr.flags
            /\ d.tcpHdr.ack = g.tcpHdr.ack
            /\ g.tcpHdr.seq = Add32(d.tcpHdr.seq, PayloadSum(d.pkt.segs))
            /\ PayloadSum(d.pkt.segs) + PayloadSum(g.pkt.segs) >= groMaxPacketSize

\* C6: reference conservation.  The reference IncRef took when a packet was
\* staged is released exactly once when the entry has been handed to the
\* endpoint, and never more than once.
C6_RefConservation ==
    \A k \in 1 .. Len(incRefs) :
        /\ Count(decRefs, incRefs[k]) <= 1
        /\ (\E d \in 1 .. Len(delivered) : delivered[d].pkt.id = incRefs[k])
              => Count(decRefs, incRefs[k]) = 1

\* C7: disabled transparency.  A dispatch call that reads interval == 0 calls
\* HandlePacket exactly once, with the input packet unmodified and for the
\* endpoint it was given, does not take the mutex and leaves the buckets as
\* they are.
C7_DisabledTransparency ==
    [][(Len(entered') = Len(entered) + 1 /\ intervalNS = 0) =>
          /\ delivered' = Append(delivered,
                [ep |-> entered'[Len(entered')].ep,
                 pkt |-> entered'[Len(entered')].pkt.pkt,
                 ipHdr |-> entered'[Len(entered')].pkt.ipHdr,
                 tcpHdr |-> entered'[Len(entered')].pkt.tcpHdr])
          /\ buckets' = buckets
          /\ incRefs' = incRefs
          /\ lastOp' = "dispatchPass"]_vars

\* GRO was switched off with packets staged, and a full segment with DF set
\* was dispatched after that.
C7_Witness ==
    /\ lastOp = "dispatchPass"
    /\ intervalNS = 0
    /\ delivered[Len(delivered)].ipHdr.df
    /\ delivered[Len(delivered)].ipHdr.totalLength = Mtu
    /\ \E i \in BucketIdx : buckets[i].count > 0

\* C8: flushAll postcondition.  When flushAll returns every bucket is empty.
C8_FlushAllEmpties ==
    (lastOp = "flushAll" /\ fault = "none") =>
        \A i \in BucketIdx : buckets[i].count = 0 /\ buckets[i].head = NilSlot

\* C9: flush postcondition.  When flush returns no bucket holds an entry
\* created before the threshold now - interval.
C9_FlushRemovesAged ==
    (lastOp = "flush" /\ fault = "none") =>
        \A i \in BucketIdx : \A e \in Staged(buckets[i]) :
            ~(buckets[i].packetsPrealloc[e].created < now - intervalNS)

\* C10: shutdown does not deliver.  close() calls HandlePacket for no staged
\* entry, ends without a crash, and has released exactly once the reference
\* of every packet that was staged and not handed to the endpoint.
C10_CloseReleases ==
    [][closed' /\ ~closed =>
          /\ delivered' = delivered
          /\ fault' = "none"
          /\ \A k \in 1 .. Len(incRefs) :
                (\A d \in 1 .. Len(delivered) : delivered[d].pkt.id # incRefs[k])
                    => Count(decRefs', incRefs[k]) = 1]_vars

\* No bucket has an entry staged.
NoneStaged == \A i \in BucketIdx : Staged(buckets[i]) = {}

\* C11: disable while staged.  Once setInterval has stored 0 the worker, while
\* it runs and the interval stays 0, eventually has handed every staged entry
\* to the endpoint: no bucket holds a staged entry any more.
C11_DisableFlushes ==
    (intervalNS = 0 /\ setPc = "send")
        ~> (closePc # "idle" \/ fault # "none" \/ intervalNS # 0 \/ NoneStaged)

\* C12: setInterval is non-blocking.  A caller of setInterval that has stored
\* the interval can always complete its send on gd.newInterval at once,
\* whatever the worker is doing and whether or not close has run: the send
\* never has to wait for the worker to take an earlier signal.
C12_SetIntervalNeverWaits ==
    (setPc = "send" /\ fault = "none") => ENABLED SetIntervalSend

\* C13: while the worker runs, the interval it operates with does not stay
\* different from the stored one: after the last setInterval call the worker
\* has taken the signal, holds the stored interval as its own, and no caller
\* or signal is left waiting.
C13_IntervalTakesEffect ==
    <>[](closePc # "idle" \/ fault # "none"
         \/ (wInterval = intervalNS /\ setPc = "idle" /\ newInterval = 0))

\* Every setInterval call has been made and the worker has reloaded.
C13_Reloaded ==
    /\ nSets = MaxCtlSets /\ setPc = "idle" /\ newInterval = 0
    /\ closePc = "idle" /\ fault = "none"
    /\ wInterval = intervalNS
    /\ lastOp \in {"rearm", "flushAll"}


\* C14: close stops the worker.  A close() call that has begun eventually
\* returns without a failure, and once it has returned no flush or flushAll of
\* the worker hands a packet to an endpoint.
C14_CloseStopsWorker ==
    /\ [](closePc # "idle" => <>(closePc = "done" /\ fault = "none"))
    /\ [][closed => delivered' = delivered]_vars


\* C15: a negative interval is clamped to disabled.  A worker that holds a
\* negative interval has not failed (it armed no ticker with it), and a
\* dispatch call that finds a negative interval stored hands the packet over
\* without taking the staging path.
C15_NegativeIsDisabled ==
    /\ wInterval < 0 => fault = "none"
    /\ intervalNS < 0 => lastOp # "dispatch"


\* The segments of the entries linked in a bucket list, oldest entry first.
StagedSegs(gb) ==
    [k \in 1 .. Len(Linked(gb)) |-> gb.packetsPrealloc[Linked(gb)[k]].pkt.segs]

\* The bucket a packet is looked up in.
BucketOf(p) == bucketForPacket(p.ipHdr, p.tcpHdr) % (groNBucketsMask + 1)

\* The step is a dispatch call that reached the bucket table with a full,
\* flag-free segment of a flow that has no entry in its bucket.
StagesNewFlow(p) ==
    /\ Len(entered') = Len(entered) + 1
    /\ lastOp' = "dispatch"
    /\ p.ipHdr.totalLength = Mtu
    /\ p.tcpHdr.flags \cap {"URG", "PSH", "RST", "SYN", "FIN"} = {}
    /\ \A e \in Staged(buckets[BucketOf(p)]) :
          FourTuple(buckets[BucketOf(p)].packetsPrealloc[e]) # FourTuple(p)

\* C16: bucket-full eviction.  A dispatch call that stages a new flow in a
\* bucket holding groBucketSize entries hands exactly the front entry to the
\* endpoint, stages the new segment at the tail, keeps the other entries
\* staged in their order, and leaves count at groBucketSize.
C16_FullBucketEvictsOldest ==
    [][LET p == entered'[Len(entered')].pkt
           gb == buckets[BucketOf(p)]
       IN  (StagesNewFlow(p) /\ gb.count = groBucketSize
                             /\ Len(StagedSegs(gb)) = groBucketSize)
           => /\ Len(delivered') = Len(delivered) + 1
              /\ delivered'[Len(delivered')].pkt.segs = Head(StagedSegs(gb))
              /\ StagedSegs(buckets'[BucketOf(p)])
                    = Append(Tail(StagedSegs(gb)), << Len(entered') >>)
              /\ buckets'[BucketOf(p)].count = groBucketSize]_vars


\* The HandlePacket calls of the step.
NewDeliveries == {delivered'[k] : k \in Len(delivered) + 1 .. Len(delivered')}

\* (a) the endpoint received the packet of the call: the same segment, the
\* same bytes and headers, for the endpoint the call named.
Forwarded(n) ==
    \E d \in NewDeliveries :
        /\ d.pkt.segs = << n >>
        /\ d.pkt.size = entered'[n].pkt.pkt.size
        /\ d.ipHdr = entered'[n].pkt.ipHdr
        /\ d.tcpHdr = entered'[n].pkt.tcpHdr
        /\ d.ep = entered'[n].ep

\* (b) the packet of the call is an entry of its bucket's list and one
\* reference has been taken for it.
StagedAlone(n) ==
    /\ incRefs' = Append(incRefs, n)
    /\ \E k \in 1 .. Len(StagedSegs(buckets'[BucketOf(entered'[n].pkt)])) :
          StagedSegs(buckets'[BucketOf(entered'[n].pkt)])[k] = << n >>

\* (c) the payload of the call's packet has been appended to an entry that
\* was staged before the call; the entry is staged still or was handed over.
MergedInto(n) ==
    \E e \in Staged(buckets[BucketOf(entered'[n].pkt)]) :
        LET segs == Append(buckets[BucketOf(entered'[n].pkt)].packetsPrealloc[e].pkt.segs, n)
        IN  \/ \E d \in NewDeliveries : d.pkt.segs = segs
            \/ \E k \in 1 .. Len(StagedSegs(buckets'[BucketOf(entered'[n].pkt)])) :
                  StagedSegs(buckets'[BucketOf(entered'[n].pkt)])[k] = segs

ExactlyOne(a, b, c) == (a /\ ~b /\ ~c) \/ (~a /\ b /\ ~c) \/ (~a /\ ~b /\ c)

\* C17: exactly one disposition per dispatch.  Every dispatch call ends with
\* its packet forwarded as it came, or staged with one reference taken, or
\* merged into a staged entry; with one of the three and no more, and with a
\* reference taken only when the packet is staged.
C17_OneDisposition ==
    [][Len(entered') = Len(entered) + 1
          => /\ ExactlyOne(Forwarded(Len(entered')), StagedAlone(Len(entered')),
                           MergedInto(Len(entered')))
             /\ (StagedAlone(Len(entered')) \/ incRefs' = incRefs)]_vars


\* What makes a packet no candidate for coalescing: a network protocol other
\* than IPv4; too few bytes for the headers; a fragment, MF set or DF clear;
\* IP options or a transport protocol other than TCP; a TCP data offset below
\* the minimum or beyond the buffer; a bad IPv4 or TCP checksum on a packet
\* that was not validated before.
Anomalous(e) ==
    \/ e.netProto # IPv4ProtocolNumber
    \/ e.pkt.pkt.size < IPv4MinimumSize + TCPMinimumSize
    \/ e.pkt.ipHdr.fragmentOffset # 0 \/ e.pkt.ipHdr.mf \/ ~e.pkt.ipHdr.df
    \/ e.pkt.ipHdr.headerLength # IPv4MinimumSize
    \/ e.pkt.ipHdr.protocol # TCPProtocolNumber
    \/ e.pkt.tcpHdr.dataOffset < TCPMinimumSize
    \/ e.pkt.pkt.size < IPv4MinimumSize + e.pkt.tcpHdr.dataOffset
    \/ (~e.pkt.pkt.rxValidated /\ (~e.pkt.ipHdr.csumOK \/ ~e.pkt.tcpHdr.csumOK))

\* C18: anomaly fallback.  With a non-zero interval stored, a dispatch call
\* for a packet that fails a filter hands exactly that packet, as it came, to
\* the endpoint of the call, does not enter the part that holds gd.mu, takes
\* no reference and leaves every bucket as it was.
C18_AnomalyFallback ==
    [][(/\ Len(entered') = Len(entered) + 1
        /\ intervalNS # 0
        /\ Anomalous(entered'[Len(entered')]))
          => /\ delivered' = Append(delivered,
                    Handle(entered'[Len(entered')].ep, entered'[Len(entered')].pkt))
             /\ buckets' = buckets
             /\ incRefs' = incRefs
             /\ lastOp' = "dispatchPass"
             /\ fault' = "none"]_vars

\* An anomalous packet has just been passed on while a bucket held an entry.
C18_PassedWhileStaged ==
    /\ entered # << >>
    /\ intervalNS # 0
    /\ Anomalous(entered[Len(entered)])
    /\ lastOp = "dispatchPass"
    /\ ~NoneStaged
    /\ delivered[Len(delivered)].pkt.segs = << Len(entered) >>


\* Packet p continues staged entry g: the same flow, TTL and TOS, no CWR,
\* the same flags but for FIN and PSH, the same ACK number, header length and
\* options, and the sequence number that follows g's payload.
Continues(g, p) ==
    /\ FourTuple(g) = FourTuple(p)
    /\ g.ipHdr.ttl = p.ipHdr.ttl /\ g.ipHdr.tos = p.ipHdr.tos
    /\ "CWR" \notin p.tcpHdr.flags
    /\ g.tcpHdr.flags \ {"FIN", "PSH"} = p.tcpHdr.flags \ {"FIN", "PSH"}
    /\ g.tcpHdr.ack = p.tcpHdr.ack
    /\ g.tcpHdr.dataOffset = p.tcpHdr.dataOffset
    /\ g.tcpHdr.opts = p.tcpHdr.opts
    /\ p.tcpHdr.seq = Add32(g.tcpHdr.seq, PayloadSum(g.pkt.segs))

\* The step is a dispatch call that reached the bucket table with a short
\* PSH segment that continues the staged entry g and fits into it.
ShortPshOnto(g) ==
    /\ Len(entered') = Len(entered) + 1
    /\ lastOp' = "dispatch"
    /\ "PSH" \in entered'[Len(entered')].pkt.tcpHdr.flags
    /\ entered'[Len(entered')].pkt.ipHdr.totalLength # Mtu
    /\ Continues(g, entered'[Len(entered')].pkt)
    /\ PayloadSum(g.pkt.segs) + entered'[Len(entered')].payload
          < groMaxPacketSize - IPv4MinimumSize - TCPMinimumSize

FullOnto(g) ==
    /\ Len(entered') = Len(entered) + 1
    /\ lastOp' = "dispatch"
    /\ entered'[Len(entered')].pkt.tcpHdr.flags
          \cap {"URG", "PSH", "RST", "SYN", "FIN"} = {}
    /\ entered'[Len(entered')].pkt.ipHdr.totalLength = Mtu
    /\ Continues(g, entered'[Len(entered')].pkt)
    /\ PayloadSum(g.pkt.segs) + entered'[Len(entered')].payload
          < groMaxPacketSize - IPv4MinimumSize - TCPMinimumSize

\* The entries of bucket gb that belong to the flow of g.
FlowEntries(gb, g) ==
    {x \in Staged(gb) : FourTuple(gb.packetsPrealloc[x]) = FourTuple(g)}

\* C20: merge result and length invariant.  Every staged entry stores as its
\* IPv4 total length the IPv4 header, its TCP header and the payloads of the
\* segments merged into it, and as its sequence number that of its first
\* segment.  A dispatch call for a full, flag-free segment that continues the
\* staged entry of its flow hands nothing to the endpoint, takes no reference,
\* and leaves the flow with one entry: the old segments and the new one.
C20_MergeKeepsLength ==
    /\ [](\A i \in BucketIdx : \A e \in Staged(buckets[i]) :
            LET g == buckets[i].packetsPrealloc[e]
            IN  /\ g.ipHdr.totalLength = IPv4MinimumSize + g.tcpHdr.dataOffset
                                           + PayloadSum(g.pkt.segs)
                /\ g.tcpHdr.seq = entered[g.pkt.segs[1]].pkt.tcpHdr.seq)
    /\ [][\A e \in Staged(buckets[BucketOf(entered'[Len(entered')].pkt)]) :
            LET n == Len(entered')
                b == BucketOf(entered'[n].pkt)
                g == buckets[b].packetsPrealloc[e]
            IN  FullOnto(g)
                => /\ delivered' = delivered
                   /\ incRefs' = incRefs
                   /\ Cardinality(FlowEntries(buckets'[b], g)) = 1
                   /\ \A x \in FlowEntries(buckets'[b], g) :
                         buckets'[b].packetsPrealloc[x].pkt.segs
                            = Append(g.pkt.segs, n)]_vars

\* A full segment has just been merged into the entry of its flow, which is
\* staged with two segments and nothing of it has been handed over.
C20_MergedAndKept ==
    /\ lastOp = "dispatch"
    /\ \E i \in BucketIdx : \E e \in Staged(buckets[i]) :
          /\ Len(buckets[i].packetsPrealloc[e].pkt.segs) = 2
          /\ buckets[i].packetsPrealloc[e].pkt.segs[2] = Len(entered)
          /\ buckets[i].packetsPrealloc[e].ipHdr.totalLength = 2 * Mtu - IPv4MinimumSize
                                                                  - TCPMinimumSize
          /\ \A k \in 1 .. Len(delivered) :
                delivered[k].pkt.segs[1] # buckets[i].packetsPrealloc[e].pkt.segs[1]


\* The list of the bucket is a list: the walk from Front() ends at nil, every
\* entry on it holds a packet, and count is the number of entries.
WellFormed(gb) ==
    LET l == Linked(gb)
    IN  /\ gb.count = Len(l)
        /\ \A k \in 1 .. Len(l) : gb.packetsPrealloc[l[k]].pkt.id # 0
        /\ IF l = << >> THEN gb.head = NilSlot
           ELSE gb.packetsPrealloc[l[Len(l)]].next = NilSlot

\* Variations of a header pair: the pair itself, and the pair with another
\* TTL, another TOS, CWR set, URG set, FIN set, a sequence number one byte
\* off, or another option byte.
Variants(p) ==
    {p,
     [p EXCEPT !.ipHdr.ttl = @ - 1],
     [p EXCEPT !.ipHdr.tos = @ + 1],
     [p EXCEPT !.tcpHdr.flags = @ \cup {"CWR"}],
     [p EXCEPT !.tcpHdr.flags = @ \cup {"URG"}],
     [p EXCEPT !.tcpHdr.flags = @ \cup {"FIN"}],
     [p EXCEPT !.tcpHdr.seq = Add32(@, 1)],
     [p EXCEPT !.tcpHdr.opts = [i \in 1 .. Len(@) |-> IF i = Len(@) THEN 2 ELSE @[i]]]}

\* Header pairs to look up: for each of three flows its next segment, full
\* without and with options in every variation, short at either side of the
\* size limit, and full with another ACK number.
Candidates ==
    UNION {Variants(Packet(Len(entered) + 1, f, k, SentBytes(f, Len(entered)))) :
              f \in 1 .. 3, k \in {"mss", "opts"}}
    \cup {Packet(Len(entered) + 1, f, k, SentBytes(f, Len(entered))) :
              f \in 1 .. 3, k \in {"psh", "edge", "ack"}}

CandidatePayload(c) == c.ipHdr.totalLength - IPv4MinimumSize - c.tcpHdr.dataOffset

\* Everything but the size limit that entry g and candidate c must agree on.
HeadersAgree(g, c) ==
    /\ g.ipHdr.ttl = c.ipHdr.ttl /\ g.ipHdr.tos = c.ipHdr.tos
    /\ "CWR" \notin c.tcpHdr.flags
    /\ (g.tcpHdr.flags \ {"CWR", "FIN", "PSH"}) = (c.tcpHdr.flags \ {"CWR", "FIN", "PSH"})
    /\ g.tcpHdr.ack = c.tcpHdr.ack
    /\ g.tcpHdr.dataOffset = c.tcpHdr.dataOffset
    /\ Add32(g.tcpHdr.seq, g.ipHdr.totalLength - IPv4MinimumSize - g.tcpHdr.dataOffset)
          = c.tcpHdr.seq
    /\ g.tcpHdr.opts = c.tcpHdr.opts

\* The result of the lookup of c in bucket gb is the classification, where
\* staged is the set of entries of gb and fits(g, c) says whether the size
\* limit lets c be merged into g.
Classified(gb, staged, c, fits(_, _)) ==
    LET r == findGROPacket(gb, c.ipHdr, c.tcpHdr)
        same == {e \in staged : FourTuple(gb.packetsPrealloc[e]) = FourTuple(c)}
    IN  /\ r.fault = "none"
        /\ (r.groPkt = NilSlot /\ ~r.flush) <=> (same = {})
        /\ same # {} =>
              /\ r.groPkt \in same
              /\ ~r.flush <=> (/\ HeadersAgree(gb.packetsPrealloc[r.groPkt], c)
                               /\ fits(gb.packetsPrealloc[r.groPkt], c))

\* Every candidate is classified in every bucket whose list is well formed.
AllClassified(fits(_, _)) ==
    LET cs == {<<BucketOf(c), c>> : c \in Candidates}
    IN  \A b \in {bc[1] : bc \in cs} :
          LET gb == buckets[b]
              staged == Staged(gb)
          IN  WellFormed(gb)
              => \A bc \in cs : bc[1] = b => Classified(gb, staged, bc[2], fits)

\* The bytes of the entry's packet, its headers included, and the candidate's
\* payload stay below the limit.
FitsPacket(g, c) == g.pkt.size + CandidatePayload(c) < groMaxPacketSize

\* The payload coalesced in the entry and the candidate's payload stay below
\* the limit.
FitsPayload(g, c) == PayloadSum(g.pkt.segs) + CandidatePayload(c) < groMaxPacketSize

NewSegs == UNION {{d.pkt.segs[k] : k \in 1 .. Len(d.pkt.segs)} : d \in NewDeliveries}

\* C22: the flush decision.  A dispatch call that reaches the bucket table
\* and returns, for a candidate whose total length is not the MTU or that has
\* one of URG, PSH, RST, SYN, FIN set, leaves no entry of the candidate's flow
\* staged: the candidate and every segment that was staged for its flow have
\* been handed to the endpoint in that call.
C22_FlushLeavesNothing ==
    [][LET n == Len(entered')
           p == entered'[n].pkt
           b == BucketOf(p)
       IN  (/\ Len(entered') = Len(entered) + 1
            /\ lastOp' = "dispatch" /\ fault' = "none"
            /\ \/ p.ipHdr.totalLength # Mtu
               \/ p.tcpHdr.flags \cap {"URG", "PSH", "RST", "SYN", "FIN"} # {})
           => /\ \A x \in Staged(buckets'[b]) :
                    FourTuple(buckets'[b].packetsPrealloc[x]) # FourTuple(p)
              /\ n \in NewSegs
              /\ \A e \in Staged(buckets[b]) :
                    FourTuple(buckets[b].packetsPrealloc[e]) = FourTuple(p)
                    => \A k \in 1 .. Len(buckets[b].packetsPrealloc[e].pkt.segs) :
                          buckets[b].packetsPrealloc[e].pkt.segs[k] \in NewSegs]_vars

\* A short segment without flags has just been handed over, while its flow
\* had no entry and another flow stays staged.
C22_ShortFlushed ==
    /\ entered # << >> /\ delivered # << >>
    /\ lastOp = "dispatch" /\ fault = "none"
    /\ entered[Len(entered)].pkt.ipHdr.totalLength # Mtu
    /\ entered[Len(entered)].pkt.tcpHdr.flags = {"ACK"}
    /\ delivered[Len(delivered)].pkt.segs = << Len(entered) >>
    /\ ~NoneStaged


\* The step is a dispatch call that reached the bucket table with a candidate
\* of the flow of the staged entry g that cannot be merged into g.
CannotMergeInto(g) ==
    /\ Len(entered') = Len(entered) + 1
    /\ lastOp' = "dispatch"
    /\ FourTuple(g) = FourTuple(entered'[Len(entered')].pkt)
    /\ ~(/\ HeadersAgree(g, entered'[Len(entered')].pkt)
         /\ FitsPacket(g, entered'[Len(entered')].pkt))

\* C23: flush-required ordering.  When the candidate has the 4-tuple of a
\* staged entry and cannot be merged into it, the call first hands the staged
\* entry to the endpoint as it is and removes it; then the candidate is
\* handled as a new arrival: handed over as the second packet of the call if
\* its flush decision is true, staged as a fresh entry with a reference taken
\* and nothing more delivered if it is false.
C23_FlushRequiredOrder ==
    [][Len(entered') = Len(entered) + 1 =>
       \A e \in Staged(buckets[BucketOf(entered'[Len(entered')].pkt)]) :
         LET n == Len(entered')
             p == entered'[n].pkt
             b == BucketOf(p)
             g == buckets[b].packetsPrealloc[e]
             fst == delivered'[Len(delivered) + 1]
             flushes == \/ p.ipHdr.totalLength # Mtu
                      \/ p.tcpHdr.flags \cap {"URG", "PSH", "RST", "SYN", "FIN"} # {}
         IN  CannotMergeInto(g)
             => /\ fault' = "none"
                /\ Len(delivered') > Len(delivered)
                /\ fst.pkt = g.pkt /\ fst.ipHdr = g.ipHdr /\ fst.tcpHdr = g.tcpHdr
                /\ \A x \in Staged(buckets'[b]) :
                      buckets'[b].packetsPrealloc[x].pkt.segs # g.pkt.segs
                /\ IF flushes
                   THEN /\ Len(delivered') = Len(delivered) + 2
                        /\ delivered'[Len(delivered) + 2].pkt.segs = << n >>
                        /\ incRefs' = incRefs
                        /\ FlowEntries(buckets'[b], g) = {}
                   ELSE /\ Len(delivered') = Len(delivered) + 1
                        /\ incRefs' = Append(incRefs, n)
                        /\ \A x \in FlowEntries(buckets'[b], g) :
                              /\ buckets'[b].packetsPrealloc[x].pkt.segs = << n >>
                              /\ buckets'[b].packetsPrealloc[x].created = now
                        /\ Cardinality(FlowEntries(buckets'[b], g)) = 1]_vars

\* A full segment with another ACK number has just pushed out the entry of
\* its flow and is staged in its place.
C23_Restaged ==
    /\ entered # << >> /\ delivered # << >>
    /\ lastOp = "dispatch" /\ fault = "none"
    /\ FourTuple(delivered[Len(delivered)]) = FourTuple(entered[Len(entered)].pkt)
    /\ delivered[Len(delivered)].tcpHdr.ack # entered[Len(entered)].pkt.tcpHdr.ack
    /\ delivered[Len(delivered)].pkt.segs[1] < Len(entered)
    /\ \E i \in BucketIdx : \E x \in Staged(buckets[i]) :
          buckets[i].packetsPrealloc[x].pkt.segs = << Len(entered) >>


\* C24: slot indices are immutable.  In every bucket, every slot j of
\* packetsPrealloc holds idx = j, after init and after any insert, removeOne
\* and removeOldest.
C24_SlotIndexFixed ==
    \A i \in BucketIdx : \A j \in Slots : buckets[i].packetsPrealloc[j].idx = j

\* The slots of a bucket that are not linked in its list.
Unlinked(gb) == Slots \ {Linked(gb)[k] : k \in 1 .. Len(Linked(gb))}

\* C25: the free-slot stack.  In every bucket the indices
\* allocIdxs[count .. groBucketSize - 1] are pairwise distinct and are exactly
\* the slots that are not linked in the list, so the slot insert writes next
\* holds no staged entry.
C25_FreeStackConsistent ==
    \A i \in BucketIdx :
        LET gb == buckets[i]
            free == gb.count .. (groBucketSize - 1)
        IN  /\ gb.count \in 0 .. groBucketSize
            /\ \A x, y \in free : x # y => gb.allocIdxs[x] # gb.allocIdxs[y]
            /\ {gb.allocIdxs[x] : x \in free} = Unlinked(gb)

\* The creation times of the entries linked in a bucket list, front first.
CreatedTimes(gb) ==
    [k \in 1 .. Len(Linked(gb)) |-> gb.packetsPrealloc[Linked(gb)[k]].created]

AgeOrdered(gb) ==
    \A k \in 1 .. (Len(CreatedTimes(gb)) - 1) :
        CreatedTimes(gb)[k] <= CreatedTimes(gb)[k + 1]

\* C26: age ordering.  In every bucket list the creation times never
\* decrease from the front to the back.  A dispatch call that merges its
\* segment into a staged entry leaves the creation times and the order of the
\* list as they were, and a dispatch call that evicts from a full bucket hands
\* over an entry whose creation time is the smallest of the list.
C26_AgeOrdering ==
    /\ [](\A i \in BucketIdx : AgeOrdered(buckets[i]))
    /\ [][Len(entered') = Len(entered) + 1 =>
            LET n == Len(entered')
                p == entered'[n].pkt
                b == BucketOf(p)
                gb == buckets[b]
            IN  /\ (\E e \in Staged(gb) :
                       \E k \in 1 .. Len(StagedSegs(buckets'[b])) :
                          StagedSegs(buckets'[b])[k]
                             = Append(gb.packetsPrealloc[e].pkt.segs, n))
                    => /\ Linked(buckets'[b]) = Linked(gb)
                       /\ CreatedTimes(buckets'[b]) = CreatedTimes(gb)
                /\ (StagesNewFlow(p) /\ gb.count = groBucketSize
                                     /\ fault' = "none")
                    => \E k \in 1 .. Len(Linked(gb)) :
                          /\ \A j \in 1 .. Len(Linked(gb)) :
                                CreatedTimes(gb)[k] <= CreatedTimes(gb)[j]
                          /\ \E d \in NewDeliveries :
                                d.pkt.segs = StagedSegs(gb)[k]]_vars

\* An older entry that took a second segment after a newer entry had been
\* staged behind it, still in front of the newer one.
C26_MergedKeepsPlace ==
    \E i \in BucketIdx :
        LET gb == buckets[i]
        IN  /\ Len(Linked(gb)) = 2
            /\ CreatedTimes(gb)[1] < CreatedTimes(gb)[2]
            /\ Len(StagedSegs(gb)[1]) = 2
            /\ Len(StagedSegs(gb)[2]) = 1
            /\ StagedSegs(gb)[1][2] > StagedSegs(gb)[2][1]

\* The sequence number that follows the last byte of segment id.
SegEnd(id) == Add32(entered[id].pkt.tcpHdr.seq, SegPayload(id))

\* C27: sequence contiguity.  For every staged entry the stored sequence
\* number is that of its first segment, the stored sequence number plus
\* payloadSize() is, modulo 2^32, the sequence number that follows the last
\* byte of its last segment, and every segment of the entry but the first
\* starts at the sequence number that follows the last byte of the segment
\* before it.
C27_SeqContiguous ==
    \A i \in BucketIdx : \A e \in Staged(buckets[i]) :
        LET g == buckets[i].packetsPrealloc[e]
            s == g.pkt.segs
        IN  /\ g.tcpHdr.seq = entered[s[1]].pkt.tcpHdr.seq
            /\ Add32(g.tcpHdr.seq, payloadSize(g)) = SegEnd(s[Len(s)])
            /\ \A k \in 1 .. (Len(s) - 1) :
                  entered[s[k + 1]].pkt.tcpHdr.seq = SegEnd(s[k])

\* A dispatch call has just merged a second segment into an entry, and the
\* sequence number wrapped around between the two segments.
C27_WrappedEntry ==
    /\ lastOp = "dispatch"
    /\ \E i \in BucketIdx : \E e \in Staged(buckets[i]) :
          LET g == buckets[i].packetsPrealloc[e]
          IN  /\ Len(g.pkt.segs) = 2
              /\ g.pkt.segs[2] = Len(entered)
              /\ g.tcpHdr.seq[1] = 65535
              /\ entered[g.pkt.segs[2]].pkt.tcpHdr.seq[1] = 0

\* Goroutine g is in the part of a handler that reads or writes the buckets.
Inside(g) == pc[g].at \in {"dispatch", "flush", "flushAll", "close", "String"}

\* C28: mutual exclusion on the bucket table.  No two of the goroutines are
\* inside their bucket section together: a dispatch call past its filters,
\* the flush of the timer, flushAll, the drain loop of close, String.  The
\* goroutine that is inside holds the mutex, and every step that changes a
\* bucket or releases packets is a step of the goroutine that holds it.
C28_MutualExclusion ==
    /\ [](\A g, h \in Goroutines : (Inside(g) /\ Inside(h)) => g = h)
    /\ [](\A g \in Goroutines : Inside(g) => mu = g)
    /\ [][(buckets' # buckets \/ decRefs' # decRefs \/ lastOp' = "String")
           => \E g \in Goroutines :
                 /\ mu = g /\ Inside(g)
                 /\ \A h \in Goroutines \ {g} : pc'[h] = pc[h]]_vars

\* A dispatch call holds the mutex with a packet staged, while the tick of
\* the worker is due and String and close have not started.
C28_Contended ==
    /\ \E g \in Callers : mu = g /\ Inside(g)
    /\ \E i \in BucketIdx : Staged(buckets[i]) # {}
    /\ wInterval # 0 /\ now >= tickAt
    /\ pc["worker"] = Idle /\ pc["printer"] = Idle /\ pc["closer"] = Idle

\* C29: stored endpoint.  Every packet handed to an endpoint after it had
\* been staged, by whichever path, goes to the endpoint of the dispatch call
\* that inserted it.
C29_StoredEndpoint ==
    \A k \in 1 .. Len(delivered) :
        (\E j \in 1 .. Len(incRefs) : incRefs[j] = delivered[k].pkt.segs[1])
        => delivered[k].ep = entered[delivered[k].pkt.segs[1]].ep

\* Packet id has been staged, the opening is over, and the clock is early
\* enough for the entry to age before MaxTime.
StagedInTime(id) ==
    /\ rxq = << >>
    /\ \E j \in 1 .. Len(incRefs) : incRefs[j] = id
    /\ now + Interval < MaxTime

\* Packet id has been handed to an endpoint.
Handed(id) == \E k \in 1 .. Len(DeliveredSegs) : DeliveredSegs[k] = id

\* The interval is positive and close() has not been called.
Ageing == intervalNS > 0 /\ closePc = "idle"

\* C30: flush-on-age liveness.  While the interval stays positive and
\* close() is not called, every packet that has been staged is handed to an
\* endpoint in the end, whatever is dispatched after it.
C30_AgedOut ==
    \A id \in 1 .. (Len(Reuse) + FreePkts) :
        StagedInTime(id) ~> (Handed(id) \/ ~Ageing)

\* C31: close drains the table.  When close() has returned, every bucket
\* has count 0 and an empty list.
C31_CloseEmpties ==
    closed => \A i \in BucketIdx :
                 /\ buckets[i].count = 0
                 /\ Front(buckets[i]) = NilSlot

\* GRO is off and nothing is under way: the stored interval is 0, setInterval
\* has returned, the reconfiguration channel is empty, the worker has taken
\* the last signal and is back in its select, and no dispatch call is in
\* progress.
Quiescent ==
    /\ intervalNS = 0 /\ setPc = "idle" /\ newInterval = 0
    /\ wInterval = 0 /\ pc["worker"] = Idle
    /\ \A g \in Callers : pc[g] = Idle

\* C32: no stranded entry after disabling.  Whenever GRO is off and nothing
\* is under way, every bucket is empty.
C32_NoneStranded ==
    Quiescent => \A i \in BucketIdx :
                    /\ buckets[i].count = 0
                    /\ Staged(buckets[i]) = {}

\* C33: staged entries are full flag-free segments.  Whenever gd.mu is free,
\* every staged entry has none of URG, PSH, RST, SYN and FIN in its stored
\* flags, every segment merged into it had an IPv4 total length equal to the
\* mtu, and its payload is the number of its segments, at least one, times
\* mtu - 20 - its TCP header length.
C33_FullFlagFree ==
    mu = "free" =>
       \A i \in BucketIdx : \A e \in Staged(buckets[i]) :
          LET g == buckets[i].packetsPrealloc[e]
          IN  /\ g.tcpHdr.flags \cap {"URG", "PSH", "RST", "SYN", "FIN"} = {}
              /\ Len(g.pkt.segs) >= 1
              /\ \A k \in 1 .. Len(g.pkt.segs) :
                    entered[g.pkt.segs[k]].pkt.ipHdr.totalLength = Mtu
              /\ payloadSize(g)
                    = Len(g.pkt.segs) * (Mtu - IPv4MinimumSize - g.tcpHdr.dataOffset)

\* An entry of two segments is staged and the mutex is free after a dispatch
\* call for a segment of the same bucket that has FIN set or is short.
C33_FlaggedKeptOut ==
    /\ mu = "free" /\ lastOp = "dispatch"
    /\ \/ "FIN" \in entered[Len(entered)].pkt.tcpHdr.flags
       \/ entered[Len(entered)].pkt.ipHdr.totalLength # Mtu
    /\ \E e \in Staged(buckets[BucketOf(entered[Len(entered)].pkt)]) :
          Len(buckets[BucketOf(entered[Len(entered)].pkt)].packetsPrealloc[e].pkt.segs) = 2
====
